---- MODULE Spec2Model ----
(***************************************************************************)
(* The OAuth debugger state machine of client/src/lib/oauth-state-machine.ts *)
(* (oauthTransitions and OAuthStateMachine.executeStep), with the session   *)
(* store it persists to and the operator who drives it.                     *)
(*                                                                         *)
(* JavaScript values are records tagged by "type", so that null, strings,   *)
(* URL objects, Error objects and documents stay distinct values.           *)
(***************************************************************************)
EXTENDS Naturals, Sequences, FiniteSets, TLC

VARIABLES
    state,      \* the AuthDebuggerState record held by the surrounding UI
    store,      \* the persistent auth store, keyed by target server URL
    inv,        \* the executeStep invocation in flight: its context and locals
    issued,     \* how many PKCE code verifiers startAuthorization has generated
    log         \* history of the current / last executeStep invocation

vars == <<state, store, inv, issued, log>>

-----------------------------------------------------------------------------
(* Bounds of the model *)

MaxCodeLen == 2     \* longest authorization code the operator types
MaxVerifier == 2    \* how many code verifiers may be generated in one run

-----------------------------------------------------------------------------
(* JavaScript values *)

Null == [type |-> "null"]
Undefined == [type |-> "undefined"]
Str(s) == [type |-> "string", str |-> s]
Arr(items) == [type |-> "array", items |-> items]
Err(message) == [type |-> "Error", message |-> message]
URLObject(href) == [type |-> "URL", href |-> href, searchParams |-> Null]

\* !!x for the values the machine tests: null and undefined are falsy, the
\* empty string is falsy, every object (arrays included) is truthy.
Truthy(x) ==
    /\ x.type # "null"
    /\ x.type # "undefined"
    /\ (x.type = "string" => x.str # <<>>)

\* Array.prototype.join(" "): the elements with one separator between each
\* two neighbours; the empty array joins to the empty string.
RECURSIVE JoinItems(_)
JoinItems(items) ==
    IF items = <<>> THEN <<>>
    ELSE IF Len(items) = 1 THEN <<items[1]>>
    ELSE <<items[1], " ">> \o JoinItems(Tail(items))

Join(array) == Str(JoinItems(array.items))

\* String.prototype.trim() on a string held as a sequence of characters.
RECURSIVE TrimStart(_)
TrimStart(s) ==
    IF s # <<>> /\ s[1] = " " THEN TrimStart(Tail(s)) ELSE s

RECURSIVE TrimEnd(_)
TrimEnd(s) ==
    IF s # <<>> /\ s[Len(s)] = " " THEN TrimEnd(SubSeq(s, 1, Len(s) - 1)) ELSE s

Trim(s) == TrimEnd(TrimStart(s))

-----------------------------------------------------------------------------
(* The target and the URLs of the model *)

serverUrl == "https://example.com"
otherServerUrl == "https://other.example.com"
Targets == {serverUrl, otherServerUrl}

\* new URL(s): throws on a string that is no URL, otherwise an object whose
\* href is the normalised string (an origin gets its trailing slash).
CanParseURL(s) == s \in {"https://example.com", "https://other.example.com",
                         "https://auth.example", "https://auth2.example/"}

Href(s) ==
    CASE s = "https://example.com" -> "https://example.com/"
      [] s = "https://other.example.com" -> "https://other.example.com/"
      [] s = "https://auth.example" -> "https://auth.example/"
      [] OTHER -> s

NewURL(s) == URLObject(Href(s))

-----------------------------------------------------------------------------
(* The Debugger State *)

OAuthSteps == <<"metadata_discovery", "client_registration",
                "authorization_redirect", "authorization_code",
                "token_request", "complete">>

StepIndex(step) == CHOOSE i \in 1..Len(OAuthSteps) : OAuthSteps[i] = step

EMPTY_DEBUGGER_STATE ==
    [ oauthStep |-> "metadata_discovery",
      resourceMetadata |-> Null,
      resourceMetadataError |-> Null,
      authServerUrl |-> Null,
      oauthMetadata |-> Null,
      oauthClientInfo |-> Null,
      authorizationUrl |-> Null,
      authorizationCode |-> Str(<<>>),
      validationError |-> Null,
      oauthTokens |-> Null,
      statusMessage |-> Null,
      latestError |-> Null ]

\* updateState(updates): the caller's merge of the patch over the record; a
\* field of the patch that the record does not have yet is added to it.
UpdateState(st, updates) ==
    [f \in DOMAIN st \cup DOMAIN updates |->
        IF f \in DOMAIN updates THEN updates[f] ELSE st[f]]

\* JsonValue turning every object into the empty object.
JsonValueDroppingObjects(x) ==
    IF x.type \in {"null", "string"} THEN x ELSE [type |-> "object"]

\* What JSON.stringify followed by JSON.parse gives for a value held in a
\* field: a URL is written by its toJSON as the href string, an Error has no
\* enumerable property and is written as {}, plain data is written as it is
\* (a property that is undefined is left out and reads as undefined again).
JsonValue(x) ==
    CASE x.type = "URL" -> Str(<<x.href>>)
      [] x.type = "Error" -> [type |-> "object"]
      [] OTHER -> x

\* JSON.stringify(state): the text stored under the debugger-state key.
Serialize(st) ==
    [ type |-> "json",
      text |-> [f \in DOMAIN st |->
                   IF f = "oauthStep" THEN st[f] ELSE JsonValue(st[f])] ]

\* JSON.parse(text).
Deserialize(json) == json.text

-----------------------------------------------------------------------------
(* The persistent auth store (DebugInspectorOAuthClientProvider) *)

EmptyStoreEntry ==
    [ serverMetadata |-> Null,
      clientInformation |-> Null,
      codeVerifier |-> Null,
      tokens |-> Null ]

getServerMetadata(sto, url) == sto[url].serverMetadata
clientInformation(sto, url) == sto[url].clientInformation
codeVerifier(sto, url) == sto[url].codeVerifier

saveServerMetadata(sto, url, metadata) ==
    [sto EXCEPT ![url].serverMetadata = metadata]
saveClientInformation(sto, url, info) ==
    [sto EXCEPT ![url].clientInformation = info]
saveCodeVerifier(sto, url, verifier) ==
    [sto EXCEPT ![url].codeVerifier = verifier]
saveTokens(sto, url, tokens) ==
    [sto EXCEPT ![url].tokens = tokens]
clear(sto, url) == [sto EXCEPT ![url] = EmptyStoreEntry]

redirectUrl == Str(<<"/oauth/callback/debug">>)
clientMetadata == [type |-> "clientMetadata", scope |-> Undefined]

-----------------------------------------------------------------------------
(* The Protocol Client: what each network operation may answer *)

Resolve(value) == [kind |-> "resolve", value |-> value]
Throw(value) == [kind |-> "throw", value |-> value]

NetworkError == Err(<<"fetch failed">>)

AuthorizationServerChoices ==
    { Undefined, Arr(<<>>),
      Arr(<<"https://auth.example", "https://auth2.example/">>),
      Arr(<<"not a url">>) }

ResourceScopeChoices == { Undefined, Arr(<<>>), Arr(<<"read", "write">>) }

ResourceMetadataDocs ==
    { [type |-> "resourceMetadata", authorization_servers |-> a,
       scopes_supported |-> s] :
        a \in AuthorizationServerChoices, s \in ResourceScopeChoices }

\* discoverOAuthProtectedResourceMetadata: a document, an Error, or a thrown
\* value that is no Error.
ProtectedResourceOutcomes ==
    { Resolve(d) : d \in ResourceMetadataDocs }
        \cup { Throw(NetworkError), Throw(Str(<<"boom">>)) }

MetadataScopeChoices == { Undefined, Arr(<<>>), Arr(<<"read", "admin">>) }

OAuthMetadataDocs ==
    { [type |-> "oauthMetadata", token_endpoint |-> t, scopes_supported |-> s] :
        t \in { Undefined, Str(<<"https://oauth.example.com/token">>) },
        s \in MetadataScopeChoices }

\* discoverOAuthMetadata: a document, nothing, or an Error.
OAuthMetadataOutcomes ==
    { Resolve(d) : d \in OAuthMetadataDocs }
        \cup { Resolve(Undefined), Throw(NetworkError) }

\* OAuthMetadataSchema accepting every document.
OAuthMetadataSchemaAcceptsAnything(doc) == TRUE

\* OAuthMetadataSchema: the token endpoint is a required string.
OAuthMetadataSchemaAccepts(doc) == doc.token_endpoint.type = "string"

ClientInfos ==
    { [type |-> "clientInfo", client_id |-> c] : c \in {"client_1", "client_2"} }

RegisterClientOutcomes ==
    { Resolve(c) : c \in ClientInfos } \cup { Throw(NetworkError) }

\* startAuthorization generates a fresh verifier and a URL that carries its
\* challenge and, when a scope was passed, the scope parameter.
CodeVerifierOf(n) == Str(<<"verifier", n>>)

AuthorizationUrlOf(n, scope) ==
    [ type |-> "URL", href |-> "https://oauth.example.com/authorize",
      searchParams |->
          [ code_challenge |-> Str(<<"S256", n>>),
            scope |-> IF Truthy(scope) THEN scope ELSE Undefined ] ]

\* URL.prototype.toString(): the string form of the URL, query included.
UrlToString(url) == Str(<<url.href, url.searchParams>>)

OAuthTokens ==
    { [type |-> "tokens", access_token |-> t] : t \in {"access_1", "access_2"} }

ExchangeOutcomes ==
    { Resolve(t) : t \in OAuthTokens } \cup { Throw(NetworkError) }

\* The authorization codes the operator can type: strings over a space and
\* a letter, the empty string included.
RECURSIVE CodesOfLen(_)
CodesOfLen(n) ==
    IF n = 0 THEN { <<>> }
    ELSE { Append(c, ch) : c \in CodesOfLen(n - 1), ch \in {" ", "a"} }

AuthorizationCodes == UNION { CodesOfLen(n) : n \in 0..MaxCodeLen }

-----------------------------------------------------------------------------
(* The transition table: oauthTransitions *)

\* canTransition with complete's precondition answering true.
canTransitionCompleteOpen(step, context, sto) ==
    CASE step = "metadata_discovery" -> TRUE
      [] step = "client_registration" -> Truthy(context.state.oauthMetadata)
      [] step = "authorization_redirect" ->
            /\ Truthy(context.state.oauthMetadata)
            /\ Truthy(context.state.oauthClientInfo)
      [] step = "authorization_code" -> TRUE
      [] step = "token_request" ->
            /\ Truthy(context.state.authorizationCode)
            /\ Truthy(getServerMetadata(sto, context.serverUrl))
            /\ Truthy(clientInformation(sto, context.serverUrl))
      [] step = "complete" -> TRUE

\* client_registration.canTransition answering true whatever the state.
ClientRegistrationCanTransitionOpen(context) == TRUE

\* client_registration.canTransition refusing while an error is displayed.
ClientRegistrationCanTransitionUnlessError(context) ==
    /\ Truthy(context.state.oauthMetadata)
    /\ ~Truthy(context.state.latestError)

\* client_registration.canTransition: !!context.state.oauthMetadata.
ClientRegistrationCanTransition(context) ==
    Truthy(context.state.oauthMetadata)

\* authorization_redirect.canTransition without the test of oauthClientInfo.
AuthorizationRedirectCanTransitionMetadataOnly(context) ==
    Truthy(context.state.oauthMetadata)

\* authorization_redirect.canTransition.
AuthorizationRedirectCanTransition(context) ==
    /\ Truthy(context.state.oauthMetadata)
    /\ Truthy(context.state.oauthClientInfo)

\* canTransition of each step. context is the StateMachineContext: the state
\* handed to executeStep and the target; sto is what the provider reads.
canTransition(step, context, sto) ==
    CASE step = "metadata_discovery" -> TRUE
      [] step = "client_registration" ->
            ClientRegistrationCanTransition(context)
      [] step = "authorization_redirect" ->
            AuthorizationRedirectCanTransition(context)
      [] step = "authorization_code" -> TRUE
      [] step = "token_request" ->
            /\ Truthy(context.state.authorizationCode)
            /\ Truthy(getServerMetadata(sto, context.serverUrl))
            /\ Truthy(clientInformation(sto, context.serverUrl))
      [] step = "complete" -> FALSE

\* ResolveAuthServer with a catch block that keeps Error instances only.
ResolveAuthServerDroppingNonErrors(target, outcome) ==
    LET fallback == NewURL(target) IN
    IF outcome.kind = "resolve"
    THEN LET resourceMetadata == outcome.value
             servers == resourceMetadata.authorization_servers
         IN IF Truthy(resourceMetadata) /\ servers.type = "array"
                 /\ Len(servers.items) > 0
            THEN IF CanParseURL(servers.items[1])
                 THEN [ authServerUrl |-> NewURL(servers.items[1]),
                        resourceMetadata |-> resourceMetadata,
                        resourceMetadataError |-> Null ]
                 ELSE [ authServerUrl |-> fallback,
                        resourceMetadata |-> resourceMetadata,
                        resourceMetadataError |-> Err(<<"Invalid URL">>) ]
            ELSE [ authServerUrl |-> fallback,
                   resourceMetadata |-> resourceMetadata,
                   resourceMetadataError |-> Null ]
    ELSE [ authServerUrl |-> fallback,
           resourceMetadata |-> Null,
           resourceMetadataError |->
               IF outcome.value.type = "Error" THEN outcome.value ELSE Null ]

\* ResolveAuthServer taking the last authorization server in place of the
\* first.
ResolveAuthServerTakingLast(target, outcome) ==
    LET fallback == NewURL(target) IN
    IF outcome.kind = "resolve"
    THEN LET resourceMetadata == outcome.value
             servers == resourceMetadata.authorization_servers
         IN IF Truthy(resourceMetadata) /\ servers.type = "array"
                 /\ Len(servers.items) > 0
            THEN IF CanParseURL(servers.items[Len(servers.items)])
                 THEN [ authServerUrl |-> NewURL(servers.items[Len(servers.items)]),
                        resourceMetadata |-> resourceMetadata,
                        resourceMetadataError |-> Null ]
                 ELSE [ authServerUrl |-> fallback,
                        resourceMetadata |-> resourceMetadata,
                        resourceMetadataError |-> Err(<<"Invalid URL">>) ]
            ELSE [ authServerUrl |-> fallback,
                   resourceMetadata |-> resourceMetadata,
                   resourceMetadataError |-> Null ]
    ELSE [ authServerUrl |-> fallback,
           resourceMetadata |-> Null,
           resourceMetadataError |->
               IF outcome.value.type = "Error" THEN outcome.value
               ELSE Err(outcome.value.str) ]

\* ResolveAuthServer letting go of the discovered document when its first
\* authorization server is no URL.
ResolveAuthServerDiscardingDocument(target, outcome) ==
    LET fallback == NewURL(target) IN
    IF outcome.kind = "resolve"
    THEN LET resourceMetadata == outcome.value
             servers == resourceMetadata.authorization_servers
         IN IF Truthy(resourceMetadata) /\ servers.type = "array"
                 /\ Len(servers.items) > 0
            THEN IF CanParseURL(servers.items[1])
                 THEN [ authServerUrl |-> NewURL(servers.items[1]),
                        resourceMetadata |-> resourceMetadata,
                        resourceMetadataError |-> Null ]
                 ELSE [ authServerUrl |-> fallback,
                        resourceMetadata |-> Null,
                        resourceMetadataError |-> Err(<<"Invalid URL">>) ]
            ELSE [ authServerUrl |-> fallback,
                   resourceMetadata |-> resourceMetadata,
                   resourceMetadataError |-> Null ]
    ELSE [ authServerUrl |-> fallback,
           resourceMetadata |-> Null,
           resourceMetadataError |->
               IF outcome.value.type = "Error" THEN outcome.value
               ELSE Err(outcome.value.str) ]

\* metadata_discovery, from its first line to the catch block: the locals
\* authServerUrl, resourceMetadata and resourceMetadataError once
\* discoverOAuthProtectedResourceMetadata has answered with `outcome`.
ResolveAuthServer(target, outcome) ==
    LET fallback == NewURL(target) IN
    IF outcome.kind = "resolve"
    THEN LET resourceMetadata == outcome.value
             servers == resourceMetadata.authorization_servers
         IN IF Truthy(resourceMetadata) /\ servers.type = "array"
                 /\ Len(servers.items) > 0
            THEN IF CanParseURL(servers.items[1])
                 THEN [ authServerUrl |-> NewURL(servers.items[1]),
                        resourceMetadata |-> resourceMetadata,
                        resourceMetadataError |-> Null ]
                 ELSE \* new URL throws a TypeError inside the try block
                      [ authServerUrl |-> fallback,
                        resourceMetadata |-> resourceMetadata,
                        resourceMetadataError |-> Err(<<"Invalid URL">>) ]
            ELSE [ authServerUrl |-> fallback,
                   resourceMetadata |-> resourceMetadata,
                   resourceMetadataError |-> Null ]
    ELSE [ authServerUrl |-> fallback,
           resourceMetadata |-> Null,
           resourceMetadataError |->
               IF outcome.value.type = "Error" THEN outcome.value
               ELSE Err(outcome.value.str) ]

\* MetadataDiscoveryPatch advancing without the parsed metadata.
MetadataDiscoveryPatchWithoutMetadata(locals, parsedMetadata) ==
    [ resourceMetadata |-> locals.resourceMetadata,
      resourceMetadataError |-> locals.resourceMetadataError,
      authServerUrl |-> locals.authServerUrl,
      oauthMetadata |-> Null,
      oauthStep |-> "client_registration" ]

MetadataDiscoveryPatch(locals, parsedMetadata) ==
    [ resourceMetadata |-> locals.resourceMetadata,
      resourceMetadataError |-> locals.resourceMetadataError,
      authServerUrl |-> locals.authServerUrl,
      oauthMetadata |-> parsedMetadata,
      oauthStep |-> "client_registration" ]

\* RegistrationScopesSupported preferring the authorization server's scopes.
RegistrationScopesSupportedMetadataFirst(st) ==
    IF Truthy(st.oauthMetadata.scopes_supported)
    THEN st.oauthMetadata.scopes_supported
    ELSE IF Truthy(st.resourceMetadata)
         THEN st.resourceMetadata.scopes_supported
         ELSE Undefined

\* client_registration: the scopes to register, resource metadata first.
RegistrationScopesSupported(st) ==
    IF Truthy(st.resourceMetadata) /\ Truthy(st.resourceMetadata.scopes_supported)
    THEN st.resourceMetadata.scopes_supported
    ELSE st.oauthMetadata.scopes_supported

\* client_registration reads metadata.scopes_supported when the resource
\* metadata offers no scopes: a TypeError when there is no metadata.
ReadsScopesOfNothing(st) ==
    /\ ~(Truthy(st.resourceMetadata) /\ Truthy(st.resourceMetadata.scopes_supported))
    /\ ~Truthy(st.oauthMetadata)

RegistrationClientMetadata(st) ==
    IF Truthy(RegistrationScopesSupported(st))
    THEN [clientMetadata EXCEPT !.scope = Join(RegistrationScopesSupported(st))]
    ELSE clientMetadata

\* ClientRegistrationPatch naming the step after the next one.
ClientRegistrationPatchSkipping(fullInformation) ==
    [ oauthClientInfo |-> fullInformation,
      oauthStep |-> "authorization_code" ]

ClientRegistrationPatch(fullInformation) ==
    [ oauthClientInfo |-> fullInformation,
      oauthStep |-> "authorization_redirect" ]

\* AuthorizationScope passing no scope for an empty list either.
AuthorizationScopeOmittingEmpty(metadata) ==
    IF Truthy(metadata.scopes_supported)
         /\ metadata.scopes_supported.items # <<>>
    THEN Join(metadata.scopes_supported)
    ELSE Undefined

\* authorization_redirect: the scope passed to startAuthorization.
AuthorizationScope(metadata) ==
    IF Truthy(metadata.scopes_supported)
    THEN Join(metadata.scopes_supported)
    ELSE Undefined

AuthorizationRedirectPatch(authorizationUrl) ==
    [ authorizationUrl |-> UrlToString(authorizationUrl),
      oauthStep |-> "authorization_code" ]

\* CodeMissing without the trim.
CodeMissingUntrimmed(st) == ~Truthy(st.authorizationCode)

\* CodeMissing finding no code whatever was typed.
CodeMissingWhateverTyped(st) == TRUE

\* authorization_code: the test that rejects a missing or blank code.
CodeMissing(st) ==
    \/ ~Truthy(st.authorizationCode)
    \/ Trim(st.authorizationCode.str) = <<>>

\* AuthorizationCodeErrorPatch that advances all the same.
AuthorizationCodeErrorPatchAdvancing ==
    [ validationError |-> Str(<<"You need to provide an authorization code">>),
      oauthStep |-> "token_request" ]

AuthorizationCodeErrorPatch ==
    [ validationError |-> Str(<<"You need to provide an authorization code">>) ]

\* AuthorizationCodePatch handing out tokens before the exchange.
AuthorizationCodePatchGrantingTokens ==
    [ validationError |-> Null,
      oauthTokens |-> [type |-> "tokens", access_token |-> "access_1"],
      oauthStep |-> "token_request" ]

AuthorizationCodePatch ==
    [ validationError |-> Null, oauthStep |-> "token_request" ]

\* TokenRequestPatch going back to the first step.
TokenRequestPatchRestarting(tokens) ==
    [ oauthTokens |-> tokens, oauthStep |-> "metadata_discovery" ]

\* TokenRequestPatch that advances without the tokens.
TokenRequestPatchWithoutTokens(tokens) ==
    [ oauthTokens |-> Null, oauthStep |-> "complete" ]

\* TokenRequestPatch that also empties the code field.
TokenRequestPatchClearingCode(tokens) ==
    [ oauthTokens |-> tokens,
      authorizationCode |-> Str(<<>>),
      oauthStep |-> "complete" ]

TokenRequestPatch(tokens) ==
    [ oauthTokens |-> tokens, oauthStep |-> "complete" ]

-----------------------------------------------------------------------------
(* The driver and the steps' actions, cut at their network suspensions *)

IdleInvocation == [pc |-> "idle", context |-> Null, locals |-> Null]

\* sessionStorage: the provider's entries of each target, and the serialized
\* Debugger State under its own key.
debuggerStateKey == "AUTH_DEBUGGER_STATE"

InitialStore ==
    [k \in Targets \cup {debuggerStateKey} |->
        IF k \in Targets THEN EmptyStoreEntry ELSE Null]

Init ==
    /\ state = EMPTY_DEBUGGER_STATE
    /\ store = InitialStore
    /\ inv = IdleInvocation
    /\ issued = 0
    /\ log = [ step |-> "none", outcome |-> "none", error |-> Null,
               patches |-> <<>>, calls |-> <<>>, answers |-> <<>>,
               writes |-> <<>>,
               preState |-> EMPTY_DEBUGGER_STATE, preStore |-> InitialStore ]

\* The operator's trigger taken at any time.
NoStepInFlightUnguarded == TRUE

\* One step in flight per target: the operator's trigger is taken only when
\* the previous invocation has run to completion.
NoStepInFlight == inv.pc = "idle"

NewContext == [state |-> state, serverUrl |-> serverUrl]

Call(fn, args) == [fn |-> fn, args |-> args]

\* The history record of an invocation that starts now.
Started ==
    [ step |-> state.oauthStep, outcome |-> "running", error |-> Null,
      patches |-> <<>>, calls |-> <<>>, answers |-> <<>>, writes |-> <<>>,
      preState |-> state, preStore |-> store ]

\* The action suspends on the network call fn(args).
Awaits(fn, args) ==
    /\ inv' = [pc |-> fn, context |-> NewContext, locals |-> Null]
    /\ log' = [Started EXCEPT !.calls = <<Call(fn, args)>>]
    /\ UNCHANGED <<state, store, issued>>

\* The action throws `error` before it suspends or patches anything.
ThrowsAtOnce(error) ==
    /\ log' = [Started EXCEPT !.outcome = "failed", !.error = error]
    /\ UNCHANGED <<state, store, inv, issued>>

\* Reading a property of null or undefined.
TypeError == Err(<<"Cannot read properties of null">>)

\* The invocation in flight ends by throwing `error` out of executeStep.
Throws(outcome, error) ==
    /\ inv' = IdleInvocation
    /\ log' = [log EXCEPT !.outcome = "failed", !.error = error,
                          !.answers = Append(@, outcome)]
    /\ UNCHANGED <<state, store>>

\* The invocation in flight ends normally after the store write and
\* updateState(patch).
Returns(outcome, patch, write) ==
    /\ inv' = IdleInvocation
    /\ state' = UpdateState(state, patch)
    /\ log' = [log EXCEPT !.outcome = "ok",
                          !.answers = Append(@, outcome),
                          !.patches = Append(@, patch),
                          !.writes = Append(@, write)]

\* metadata_discovery.execute, up to the await of
\* discoverOAuthProtectedResourceMetadata.
MetadataDiscoveryStart ==
    Awaits("discoverOAuthProtectedResourceMetadata", serverUrl)

\* client_registration.execute, up to the await of registerClient.
ClientRegistrationStart ==
    IF ReadsScopesOfNothing(state)
    THEN ThrowsAtOnce(TypeError)
    ELSE Awaits("registerClient",
                [ serverUrl |-> serverUrl,
                  metadata |-> state.oauthMetadata,
                  clientMetadata |-> RegistrationClientMetadata(state) ])

\* authorization_redirect.execute, up to the await of startAuthorization.
AuthorizationRedirectStart ==
    IF ~Truthy(state.oauthMetadata)
    THEN ThrowsAtOnce(TypeError)
    ELSE Awaits("startAuthorization",
                [ serverUrl |-> serverUrl,
                  metadata |-> state.oauthMetadata,
                  clientInformation |-> state.oauthClientInfo,
                  redirectUrl |-> redirectUrl,
                  scope |-> AuthorizationScope(state.oauthMetadata) ])

\* Mutation of AuthorizationCodeExecute: once the code is validated the
\* action goes straight on to the token exchange.
AuthorizationCodeExecuteChaining ==
    IF CodeMissing(state)
    THEN /\ state' = UpdateState(state, AuthorizationCodeErrorPatch)
         /\ log' = [Started EXCEPT
                       !.outcome = "failed",
                       !.error = Err(<<"Authorization code required">>),
                       !.patches = <<AuthorizationCodeErrorPatch>>]
         /\ UNCHANGED <<store, inv, issued>>
    ELSE /\ state' = UpdateState(state, AuthorizationCodePatch)
         /\ inv' = [ pc |-> "exchangeAuthorization", context |-> NewContext,
                     locals |-> Null ]
         /\ log' = [Started EXCEPT
                       !.patches = <<AuthorizationCodePatch>>,
                       !.calls = <<Call("exchangeAuthorization",
                           [ serverUrl |-> serverUrl,
                             metadata |-> store[serverUrl].serverMetadata,
                             clientInformation |->
                                 store[serverUrl].clientInformation,
                             authorizationCode |-> state.authorizationCode,
                             codeVerifier |-> store[serverUrl].codeVerifier,
                             redirectUri |-> redirectUrl ])>>]
         /\ UNCHANGED <<store, issued>>

\* authorization_code.execute: local, no suspension.
AuthorizationCodeExecute ==
    /\ IF CodeMissing(state)
       THEN /\ state' = UpdateState(state, AuthorizationCodeErrorPatch)
            /\ log' = [Started EXCEPT
                          !.outcome = "failed",
                          !.error = Err(<<"Authorization code required">>),
                          !.patches = <<AuthorizationCodeErrorPatch>>]
       ELSE /\ state' = UpdateState(state, AuthorizationCodePatch)
            /\ log' = [Started EXCEPT
                          !.outcome = "ok",
                          !.patches = <<AuthorizationCodePatch>>]
    /\ UNCHANGED <<store, inv, issued>>

\* Mutation of TokenRequestStart: metadata and client information are taken
\* from the Debugger State handed to executeStep.
TokenRequestStartFromMemory ==
    Awaits("exchangeAuthorization",
           [ serverUrl |-> serverUrl,
             metadata |-> state.oauthMetadata,
             clientInformation |-> state.oauthClientInfo,
             authorizationCode |-> state.authorizationCode,
             codeVerifier |-> codeVerifier(store, serverUrl),
             redirectUri |-> redirectUrl ])

\* Mutation of TokenRequestStart: the exchange is made without reading the
\* code verifier from the store.
TokenRequestStartWithoutVerifier ==
    Awaits("exchangeAuthorization",
           [ serverUrl |-> serverUrl,
             metadata |-> getServerMetadata(store, serverUrl),
             clientInformation |-> clientInformation(store, serverUrl),
             authorizationCode |-> state.authorizationCode,
             codeVerifier |-> Undefined,
             redirectUri |-> redirectUrl ])

\* token_request.execute, up to the await of exchangeAuthorization: the
\* verifier, metadata and client information are read from the store.
TokenRequestStart ==
    Awaits("exchangeAuthorization",
           [ serverUrl |-> serverUrl,
             metadata |-> getServerMetadata(store, serverUrl),
             clientInformation |-> clientInformation(store, serverUrl),
             authorizationCode |-> state.authorizationCode,
             codeVerifier |-> codeVerifier(store, serverUrl),
             redirectUri |-> redirectUrl ])

\* complete.execute: nothing.
CompleteExecute ==
    /\ log' = [Started EXCEPT !.outcome = "ok"]
    /\ UNCHANGED <<state, store, inv, issued>>

\* transition.execute(context) of the step looked up in the table.
Execute(step) ==
    CASE step = "metadata_discovery" -> MetadataDiscoveryStart
      [] step = "client_registration" -> ClientRegistrationStart
      [] step = "authorization_redirect" -> AuthorizationRedirectStart
      [] step = "authorization_code" -> AuthorizationCodeExecute
      [] step = "token_request" -> TokenRequestStart
      [] step = "complete" -> CompleteExecute

\* executeStep(state) throws "Cannot transition from <step>".
Rejects(step) ==
    /\ log' = [Started EXCEPT
                  !.outcome = "rejected",
                  !.error = Err(<<"Cannot transition from ", step>>)]
    /\ UNCHANGED <<state, store, inv, issued>>

\* executeStep running the action without asking canTransition.
executeStepUnchecked ==
    /\ NoStepInFlight
    /\ Execute(state.oauthStep)

\* OAuthStateMachine.executeStep(state), called by the operator's trigger
\* with the current Debugger State, up to the first suspension of the action.
executeStep ==
    /\ NoStepInFlight
    /\ IF ~canTransition(state.oauthStep, NewContext, store)
       THEN Rejects(state.oauthStep)
       ELSE Execute(state.oauthStep)

\* Mutation of ProtectedResourceMetadataAnswer: authorization-server metadata
\* is always discovered at the target's own URL.
ProtectedResourceMetadataAnswerAtTarget ==
    /\ inv.pc = "discoverOAuthProtectedResourceMetadata"
    /\ \E outcome \in ProtectedResourceOutcomes :
         LET locals == ResolveAuthServer(inv.context.serverUrl, outcome) IN
         /\ inv' = [inv EXCEPT !.pc = "discoverOAuthMetadata", !.locals = locals]
         /\ log' = [log EXCEPT
                      !.answers = Append(@, outcome),
                      !.calls = Append(@, Call("discoverOAuthMetadata",
                                               NewURL(inv.context.serverUrl)))]
    /\ UNCHANGED <<state, store, issued>>

\* discoverOAuthProtectedResourceMetadata answers; the action goes on to the
\* await of discoverOAuthMetadata at the resolved authorization server.
ProtectedResourceMetadataAnswer ==
    /\ inv.pc = "discoverOAuthProtectedResourceMetadata"
    /\ \E outcome \in ProtectedResourceOutcomes :
         LET locals == ResolveAuthServer(inv.context.serverUrl, outcome) IN
         /\ inv' = [inv EXCEPT !.pc = "discoverOAuthMetadata", !.locals = locals]
         /\ log' = [log EXCEPT
                      !.answers = Append(@, outcome),
                      !.calls = Append(@, Call("discoverOAuthMetadata",
                                               locals.authServerUrl))]
    /\ UNCHANGED <<state, store, issued>>

\* discoverOAuthMetadata answers: the rest of metadata_discovery.
OAuthMetadataAnswer ==
    /\ inv.pc = "discoverOAuthMetadata"
    /\ \E outcome \in OAuthMetadataOutcomes :
         IF outcome.kind = "throw"
         THEN Throws(outcome, outcome.value)
         ELSE IF ~Truthy(outcome.value)
         THEN Throws(outcome, Err(<<"Failed to discover OAuth metadata">>))
         ELSE IF ~OAuthMetadataSchemaAccepts(outcome.value)
         THEN Throws(outcome, Err(<<"ZodError">>))
         ELSE /\ store' = saveServerMetadata(store, inv.context.serverUrl,
                                             outcome.value)
              /\ Returns(outcome,
                         MetadataDiscoveryPatch(inv.locals, outcome.value),
                         "saveServerMetadata")
    /\ UNCHANGED issued

\* Mutation of RegisterClientAnswer: a registration that throws is tried
\* once more before the error is let through.
RegisterClientAnswerRetrying ==
    /\ inv.pc = "registerClient"
    /\ \E outcome \in RegisterClientOutcomes :
         IF outcome.kind = "throw"
         THEN IF Len(log.calls) = 1
              THEN /\ log' = [log EXCEPT !.answers = Append(@, outcome),
                                         !.calls = Append(@, log.calls[1])]
                   /\ UNCHANGED <<state, store, inv>>
              ELSE Throws(outcome, outcome.value)
         ELSE /\ store' = saveClientInformation(store, inv.context.serverUrl,
                                                outcome.value)
              /\ Returns(outcome, ClientRegistrationPatch(outcome.value),
                         "saveClientInformation")
    /\ UNCHANGED issued

\* registerClient answers: the rest of client_registration.
RegisterClientAnswer ==
    /\ inv.pc = "registerClient"
    /\ \E outcome \in RegisterClientOutcomes :
         IF outcome.kind = "throw"
         THEN Throws(outcome, outcome.value)
         ELSE /\ store' = saveClientInformation(store, inv.context.serverUrl,
                                                outcome.value)
              /\ Returns(outcome, ClientRegistrationPatch(outcome.value),
                         "saveClientInformation")
    /\ UNCHANGED issued

\* What startAuthorization resolves to for the n-th verifier it generates.
StartAuthorizationResult(n, scope) ==
    [ type |-> "authorization",
      authorizationUrl |-> AuthorizationUrlOf(n, scope),
      codeVerifier |-> CodeVerifierOf(n) ]

\* Mutation of StartAuthorizationAnswer: the patch carries the code verifier.
StartAuthorizationAnswerKeepingVerifier ==
    /\ inv.pc = "startAuthorization"
    /\ \/ /\ Throws(Throw(NetworkError), NetworkError)
          /\ UNCHANGED issued
       \/ /\ issued < MaxVerifier
          /\ issued' = issued + 1
          /\ LET result == StartAuthorizationResult(issued + 1,
                               log.calls[1].args.scope) IN
             /\ store' = saveCodeVerifier(store, inv.context.serverUrl,
                                          result.codeVerifier)
             /\ Returns(Resolve(result),
                        [ authorizationUrl |->
                              UrlToString(result.authorizationUrl),
                          codeVerifier |-> result.codeVerifier,
                          oauthStep |-> "authorization_code" ],
                        "saveCodeVerifier")

\* Mutation of StartAuthorizationAnswer: the code verifier is not saved.
StartAuthorizationAnswerNotSaving ==
    /\ inv.pc = "startAuthorization"
    /\ \/ /\ Throws(Throw(NetworkError), NetworkError)
          /\ UNCHANGED issued
       \/ /\ issued < MaxVerifier
          /\ issued' = issued + 1
          /\ LET result == StartAuthorizationResult(issued + 1,
                               log.calls[1].args.scope) IN
             /\ store' = store
             /\ Returns(Resolve(result),
                        AuthorizationRedirectPatch(result.authorizationUrl),
                        "saveCodeVerifier")

\* startAuthorization answers: the rest of authorization_redirect.
StartAuthorizationAnswer ==
    /\ inv.pc = "startAuthorization"
    /\ \/ /\ Throws(Throw(NetworkError), NetworkError)
          /\ UNCHANGED issued
       \/ /\ issued < MaxVerifier
          /\ issued' = issued + 1
          /\ LET result == StartAuthorizationResult(issued + 1,
                               log.calls[1].args.scope) IN
             /\ store' = saveCodeVerifier(store, inv.context.serverUrl,
                                          result.codeVerifier)
             /\ Returns(Resolve(result),
                        AuthorizationRedirectPatch(result.authorizationUrl),
                        "saveCodeVerifier")

\* Mutation of ExchangeAuthorizationAnswer: the code verifier is used up by
\* an exchange that fails.
ExchangeAuthorizationAnswerUsingUpVerifier ==
    /\ inv.pc = "exchangeAuthorization"
    /\ \E outcome \in ExchangeOutcomes :
         IF outcome.kind = "throw"
         THEN /\ inv' = IdleInvocation
              /\ log' = [log EXCEPT !.outcome = "failed",
                                    !.error = outcome.value,
                                    !.answers = Append(@, outcome)]
              /\ store' = saveCodeVerifier(store, inv.context.serverUrl, Null)
              /\ UNCHANGED state
         ELSE /\ store' = saveTokens(store, inv.context.serverUrl, outcome.value)
              /\ Returns(outcome, TokenRequestPatch(outcome.value), "saveTokens")
    /\ UNCHANGED issued

\* Mutation of ExchangeAuthorizationAnswer: the tokens are patched into the
\* Debugger State and not saved.
ExchangeAuthorizationAnswerNotSaving ==
    /\ inv.pc = "exchangeAuthorization"
    /\ \E outcome \in ExchangeOutcomes :
         IF outcome.kind = "throw"
         THEN Throws(outcome, outcome.value)
         ELSE /\ store' = store
              /\ Returns(outcome, TokenRequestPatch(outcome.value), "saveTokens")
    /\ UNCHANGED issued

\* exchangeAuthorization answers: the rest of token_request.
ExchangeAuthorizationAnswer ==
    /\ inv.pc = "exchangeAuthorization"
    /\ \E outcome \in ExchangeOutcomes :
         IF outcome.kind = "throw"
         THEN Throws(outcome, outcome.value)
         ELSE /\ store' = saveTokens(store, inv.context.serverUrl, outcome.value)
              /\ Returns(outcome, TokenRequestPatch(outcome.value), "saveTokens")
    /\ UNCHANGED issued

-----------------------------------------------------------------------------
(* The operator *)

\* The operator edits the authorization code in the tool, a keystroke at a
\* time, once the flow asks for it.
SetAuthorizationCode ==
    /\ state.oauthStep \in {"authorization_code", "token_request"}
    /\ \E code \in AuthorizationCodes :
         /\ LET typed == state.authorizationCode.str IN
            \/ Len(code) = Len(typed) + 1 /\ SubSeq(code, 1, Len(typed)) = typed
            \/ Len(typed) = Len(code) + 1 /\ SubSeq(typed, 1, Len(code)) = code
         /\ state' = UpdateState(state, [authorizationCode |-> Str(code)])
    /\ UNCHANGED <<store, inv, issued, log>>

\* ClearPatch without oauthTokens.
ClearPatchKeepingTokens ==
    [ authServerUrl |-> Null,
      authorizationUrl |-> Null,
      resourceMetadata |-> Null,
      resourceMetadataError |-> Null,
      oauthStep |-> "metadata_discovery",
      latestError |-> Null,
      oauthClientInfo |-> Null,
      oauthMetadata |-> Null,
      authorizationCode |-> Str(<<>>),
      validationError |-> Null,
      statusMessage |-> [type |-> "success",
                         message |-> "OAuth tokens cleared successfully"] ]

\* The patch that "Clear OAuth State" hands to updateAuthState. Its
\* isInitiatingAuth: false is the trigger flag of the UI, which the model
\* holds as inv and not as a field of the Debugger State.
ClearPatch ==
    [ authServerUrl |-> Null,
      authorizationUrl |-> Null,
      resourceMetadata |-> Null,
      resourceMetadataError |-> Null,
      oauthTokens |-> Null,
      oauthStep |-> "metadata_discovery",
      latestError |-> Null,
      oauthClientInfo |-> Null,
      oauthMetadata |-> Null,
      authorizationCode |-> Str(<<>>),
      validationError |-> Null,
      statusMessage |-> [type |-> "success",
                         message |-> "OAuth tokens cleared successfully"] ]

\* The operator clears the authorization state of the target.
ClearOAuthState ==
    /\ store' = clear(store, serverUrl)
    /\ state' = UpdateState(state, ClearPatch)
    /\ UNCHANGED <<inv, issued, log>>

Next ==
    \/ executeStep
    \/ ProtectedResourceMetadataAnswer
    \/ OAuthMetadataAnswer
    \/ RegisterClientAnswer
    \/ StartAuthorizationAnswer
    \/ ExchangeAuthorizationAnswer
    \/ SetAuthorizationCode
    \/ ClearOAuthState

Spec == Init /\ [][Next]_vars

\* The machine's steps alone: the operator triggers steps and types the
\* code, and never clears.
NextSteps ==
    \/ executeStep
    \/ ProtectedResourceMetadataAnswer
    \/ OAuthMetadataAnswer
    \/ RegisterClientAnswer
    \/ StartAuthorizationAnswer
    \/ ExchangeAuthorizationAnswer
    \/ SetAuthorizationCode

SpecSteps == Init /\ [][NextSteps]_vars

-----------------------------------------------------------------------------
(* The redirect of the Quick OAuth Flow *)

\* The flow has reached authorization_code by a successful
\* authorization_redirect: the Debugger State that this step produced is
\* written to sessionStorage and the browser is navigated to the
\* authorization URL, which unloads the page and with it the Debugger State
\* in memory.
QuickFlowRedirect ==
    /\ NoStepInFlight
    /\ state.oauthStep = "authorization_code"
    /\ log.step = "authorization_redirect"
    /\ log.outcome = "ok"
    /\ state = UpdateState(log.preState, log.patches[Len(log.patches)])
    /\ store' = [store EXCEPT ![debuggerStateKey] = Serialize(state)]
    /\ state' = EMPTY_DEBUGGER_STATE
    /\ inv' = [pc |-> "away", context |-> Null, locals |-> Null]
    /\ UNCHANGED <<issued, log>>

\* The authorization server redirects back: the page loads again and the
\* Debugger State is rehydrated from sessionStorage.
ReturnFromRedirect ==
    /\ inv.pc = "away"
    /\ state' = Deserialize(store[debuggerStateKey])
    /\ inv' = IdleInvocation
    /\ UNCHANGED <<store, issued, log>>

NextRedirect ==
    \/ NextSteps
    \/ QuickFlowRedirect
    \/ ReturnFromRedirect

\* What an earlier Quick OAuth Flow on the other target has left in
\* sessionStorage: the provider's entries under that target's keys and the
\* Debugger State it serialized before its redirect.
OtherTargetEntry ==
    [ serverMetadata |-> [type |-> "oauthMetadata", scopes_supported |-> Undefined,
                          token_endpoint |-> Str(<<"https://other.example.com/token">>)],
      clientInformation |-> [type |-> "clientInfo", client_id |-> "client_2"],
      codeVerifier |-> CodeVerifierOf(0),
      tokens |-> Null ]

OtherTargetState ==
    [EMPTY_DEBUGGER_STATE EXCEPT
        !.oauthStep = "authorization_code",
        !.authServerUrl = NewURL(otherServerUrl),
        !.oauthMetadata = OtherTargetEntry.serverMetadata,
        !.oauthClientInfo = OtherTargetEntry.clientInformation,
        !.authorizationUrl = UrlToString(AuthorizationUrlOf(0, Undefined))]

StoreAfterOtherTarget ==
    [InitialStore EXCEPT
        ![otherServerUrl] = OtherTargetEntry,
        ![debuggerStateKey] = Serialize(OtherTargetState)]

InitRedirect ==
    /\ state = EMPTY_DEBUGGER_STATE
    /\ store = StoreAfterOtherTarget
    /\ inv = IdleInvocation
    /\ issued = 0
    /\ log = [ step |-> "none", outcome |-> "none", error |-> Null,
               patches |-> <<>>, calls |-> <<>>, answers |-> <<>>,
               writes |-> <<>>,
               preState |-> EMPTY_DEBUGGER_STATE, preStore |-> InitialStore ]

SpecRedirect == InitRedirect /\ [][NextRedirect]_vars

-----------------------------------------------------------------------------
(* Overlapping invocations of authorization_redirect *)

\* OverlappingStartAuthorizationAnswer keeping a verifier already stored.
OverlappingStartAuthorizationAnswerKeepingStored ==
    /\ inv.pc = "startAuthorization"
    /\ issued < MaxVerifier
    /\ issued' = issued + 1
    /\ LET result == StartAuthorizationResult(issued + 1,
                         log.calls[1].args.scope) IN
       /\ store' = IF Truthy(codeVerifier(store, inv.context.serverUrl))
                   THEN store
                   ELSE saveCodeVerifier(store, inv.context.serverUrl,
                                         result.codeVerifier)
       /\ state' = UpdateState(state,
                       AuthorizationRedirectPatch(result.authorizationUrl))
    /\ UNCHANGED <<inv, log>>

\* executeStep itself holds no lock (lines 190-205). Were the trigger taken
\* again on the same Debugger State while an authorization_redirect is
\* awaiting startAuthorization, the invocations would be alike and may be
\* answered in any order: this is the answer to one of them, i.e. the rest
\* of authorization_redirect.execute after its await, while another
\* invocation stays in flight.
OverlappingStartAuthorizationAnswer ==
    /\ inv.pc = "startAuthorization"
    /\ issued < MaxVerifier
    /\ issued' = issued + 1
    /\ LET result == StartAuthorizationResult(issued + 1,
                         log.calls[1].args.scope) IN
       /\ store' = saveCodeVerifier(store, inv.context.serverUrl,
                                    result.codeVerifier)
       /\ state' = UpdateState(state,
                       AuthorizationRedirectPatch(result.authorizationUrl))
    /\ UNCHANGED <<inv, log>>

NextOverlap ==
    \/ executeStep
    \/ ProtectedResourceMetadataAnswer
    \/ OAuthMetadataAnswer
    \/ RegisterClientAnswer
    \/ StartAuthorizationAnswer
    \/ OverlappingStartAuthorizationAnswer
    \/ ExchangeAuthorizationAnswer
    \/ SetAuthorizationCode
    \/ ClearOAuthState

SpecOverlap == Init /\ [][NextOverlap]_vars

-----------------------------------------------------------------------------
(* The driver on any Debugger State *)

\* executeStep(state) takes whatever Debugger State its caller hands in and
\* reads whatever the store holds for the target: after a reload the memory
\* of the flow may be lost or stale while the store still holds what earlier
\* steps persisted. SpecDriver starts from any such pair at a step whose
\* precondition or action reads the state or the store (metadata_discovery
\* reads neither and is covered by Spec).
DriverMetadata ==
    { d \in OAuthMetadataDocs :
        OAuthMetadataSchemaAccepts(d) /\ d.scopes_supported # Arr(<<>>) }

\* The operator-facing feedback the caller keeps on the state: nothing, or
\* the notice and the error of an earlier attempt.
DriverFeedback ==
    { [statusMessage |-> Null, latestError |-> Null],
      [statusMessage |-> [type |-> "error", message |-> "OAuth flow failed"],
       latestError |-> NetworkError] }

DriverStates ==
    { [EMPTY_DEBUGGER_STATE EXCEPT
          !.oauthStep = step, !.oauthMetadata = metadata,
          !.oauthClientInfo = info, !.authorizationCode = Str(code),
          !.statusMessage = feedback.statusMessage,
          !.latestError = feedback.latestError] :
        step \in { OAuthSteps[i] : i \in 2..Len(OAuthSteps) },
        metadata \in {Null} \cup DriverMetadata,
        info \in {Null} \cup ClientInfos,
        code \in AuthorizationCodes,
        feedback \in DriverFeedback }

DriverStores ==
    { [InitialStore EXCEPT
          ![serverUrl] = [ serverMetadata |-> metadata,
                           clientInformation |-> info,
                           codeVerifier |-> verifier,
                           tokens |-> Null ]] :
        metadata \in {Null} \cup DriverMetadata,
        info \in {Null} \cup ClientInfos,
        verifier \in {Null, CodeVerifierOf(0)} }

InitDriver ==
    /\ state \in DriverStates
    /\ store \in DriverStores
    /\ inv = IdleInvocation
    /\ issued = 0
    /\ log = [ step |-> "none", outcome |-> "none", error |-> Null,
               patches |-> <<>>, calls |-> <<>>, answers |-> <<>>,
               writes |-> <<>>,
               preState |-> EMPTY_DEBUGGER_STATE, preStore |-> InitialStore ]

NextDriver ==
    \/ executeStep
    \/ RegisterClientAnswer
    \/ StartAuthorizationAnswer
    \/ ExchangeAuthorizationAnswer

SpecDriver == InitDriver /\ [][NextDriver]_vars

-----------------------------------------------------------------------------
(* Properties of the state machine *)

\* An executeStep invocation takes a step now: it starts, is rejected, or
\* goes on from a network answer.
InvocationStep == log' # log

\* An executeStep invocation ends now with the given outcome.
Ends(outcome) == InvocationStep /\ log'.outcome = outcome

LastPatch(l) == l.patches[Len(l.patches)]

NextStepOf(step) == OAuthSteps[StepIndex(step) + 1]

\* A string that is empty or holds nothing but spaces.
Blank(string) == \A i \in 1..Len(string.str) : string.str[i] = " "

Called(l, fn) == \E i \in 1..Len(l.calls) : l.calls[i].fn = fn

\* C1: an invocation on a step other than complete whose action succeeds
\* applies one patch, and that patch sets oauthStep to the step that follows
\* the invoked step in the table order: it never stays, skips or goes back.
C1_SuccessAdvancesToNextStep ==
    [][ Ends("ok") =>
          /\ log'.step # "complete"
          /\ Len(log'.patches) = 1
          /\ "oauthStep" \in DOMAIN LastPatch(log')
          /\ LastPatch(log').oauthStep = NextStepOf(log'.step)
          /\ state'.oauthStep = NextStepOf(log'.step) ]_vars

C1_Witness ==
    /\ log.outcome = "ok"
    /\ log.step = "token_request"
    /\ state.oauthStep = "complete"

\* C2: no step of an executeStep invocation, whatever its outcome, moves
\* oauthStep to an earlier position of the table order.
C2_StepNeverRegresses ==
    [][ InvocationStep =>
          StepIndex(state'.oauthStep) >= StepIndex(state.oauthStep) ]_vars

C2_Witness ==
    /\ state.oauthStep = "complete"
    /\ log.outcome = "rejected"
    /\ log.step = "complete"

\* C3: executeStep on complete fails with the illegal-transition error,
\* applies no patch, writes nothing to the store and calls no Protocol
\* Client operation, whatever the rest of the state and the store hold.
C3_CompleteIsTerminal ==
    [][ (state.oauthStep = "complete" /\ InvocationStep) =>
          /\ log'.step = "complete"
          /\ log'.outcome = "rejected"
          /\ log'.error = Err(<<"Cannot transition from ", "complete">>)
          /\ log'.patches = <<>>
          /\ log'.writes = <<>>
          /\ log'.calls = <<>>
          /\ UNCHANGED <<state, store, inv>> ]_vars

C3_Witness ==
    /\ log.step = "complete"
    /\ log.outcome = "rejected"
    /\ Truthy(state.oauthTokens)
    /\ Truthy(store[serverUrl].tokens)

\* C4: executeStep on a step whose precondition is false fails with
\* "Cannot transition from <step>", does not run the action (no call, no
\* invocation left in flight), applies no patch and leaves the store alone.
C4_RejectedPreconditionChangesNothing ==
    [][ ( /\ NoStepInFlight
          /\ InvocationStep
          /\ ~canTransition(state.oauthStep, NewContext, store) ) =>
          /\ log'.outcome = "rejected"
          /\ log'.error = Err(<<"Cannot transition from ", state.oauthStep>>)
          /\ log'.calls = <<>>
          /\ log'.patches = <<>>
          /\ log'.writes = <<>>
          /\ UNCHANGED <<state, store, inv>> ]_vars

C4_Witness ==
    /\ log.outcome = "rejected"
    /\ log.step = "token_request"
    /\ ~Blank(log.preState.authorizationCode)
    /\ ~Truthy(log.preStore[serverUrl].clientInformation)

\* C5: a step of an invocation changes oauthStep only when the invocation
\* ends in success; a rejected or failed invocation leaves oauthStep as it
\* was.
C5_FailureNeverAdvances ==
    [][ InvocationStep =>
          (state'.oauthStep # state.oauthStep => log'.outcome = "ok") ]_vars

C5_Witness ==
    /\ log.outcome = "failed"
    /\ log.step = "client_registration"
    /\ state.oauthStep = "client_registration"

\* What the catch block of metadata_discovery keeps of a thrown value.
Captured(thrown) == IF thrown.type = "Error" THEN thrown ELSE Err(thrown.str)

\* discoverOAuthMetadata resolved to a document the schema accepts.
MetadataDiscovered(answer) ==
    /\ answer.kind = "resolve"
    /\ Truthy(answer.value)
    /\ answer.value.token_endpoint.type = "string"

\* C6: in metadata_discovery, when protected-resource-metadata discovery
\* throws (an Error or anything else) and authorization-server metadata is
\* then discovered, the step succeeds and its patch holds the captured error,
\* no resource metadata, the target's own URL as authServerUrl and
\* oauthStep = client_registration.
C6_ResourceMetadataFailureIsNotFatal ==
    ( /\ log.step = "metadata_discovery"
      /\ Len(log.answers) = 2
      /\ log.answers[1].kind = "throw"
      /\ MetadataDiscovered(log.answers[2]) ) =>
        /\ log.outcome = "ok"
        /\ Len(log.patches) = 1
        /\ LastPatch(log).resourceMetadataError = Captured(log.answers[1].value)
        /\ LastPatch(log).resourceMetadataError.type = "Error"
        /\ LastPatch(log).resourceMetadata = Null
        /\ LastPatch(log).authServerUrl = URLObject("https://example.com/")
        /\ LastPatch(log).oauthStep = "client_registration"

C6_Witness ==
    /\ log.step = "metadata_discovery"
    /\ log.outcome = "ok"
    /\ log.answers[1] = Throw(Str(<<"boom">>))
    /\ state.oauthStep = "client_registration"
    /\ state.resourceMetadataError = Err(<<"boom">>)

\* A successful metadata_discovery whose resource-metadata discovery resolved.
ResourceMetadataDiscovered ==
    /\ log.step = "metadata_discovery"
    /\ log.outcome = "ok"
    /\ log.answers[1].kind = "resolve"

FirstAuthorizationServer(doc) == doc.authorization_servers.items[1]

HasAuthorizationServers(doc) ==
    /\ doc.authorization_servers.type = "array"
    /\ Len(doc.authorization_servers.items) > 0

\* C7 as claimed: when protected-resource-metadata discovery succeeds, the
\* patch holds the discovered document and authServerUrl is the URL of the
\* first authorization_servers entry when the list is non-empty, the target's
\* own URL otherwise.
C7_AuthServerIsFirstEntry ==
    ResourceMetadataDiscovered =>
        LET doc == log.answers[1].value IN
        /\ LastPatch(log).resourceMetadata = doc
        /\ LastPatch(log).authServerUrl =
              IF HasAuthorizationServers(doc)
              THEN [ type |-> "URL", href |-> Href(FirstAuthorizationServer(doc)),
                     searchParams |-> Null ]
              ELSE URLObject("https://example.com/")

\* C7 as amended: when protected-resource-metadata discovery succeeds, the
\* patch holds the discovered document and authServerUrl is the URL of the
\* first authorization_servers entry when the list is non-empty and that
\* entry parses as a URL, the target's own URL otherwise.
C7_AuthServerIsFirstParsableEntry ==
    ResourceMetadataDiscovered =>
        LET doc == log.answers[1].value IN
        /\ LastPatch(log).resourceMetadata = doc
        /\ LastPatch(log).authServerUrl =
              IF HasAuthorizationServers(doc)
                    /\ CanParseURL(FirstAuthorizationServer(doc))
              THEN [ type |-> "URL", href |-> Href(FirstAuthorizationServer(doc)),
                     searchParams |-> Null ]
              ELSE URLObject("https://example.com/")

C7_Witness ==
    /\ ResourceMetadataDiscovered
    /\ HasAuthorizationServers(log.answers[1].value)
    /\ Len(log.answers[1].value.authorization_servers.items) = 2
    /\ state.authServerUrl = URLObject("https://auth.example/")
    /\ state.resourceMetadata = log.answers[1].value

\* C8 as claimed: the token exchange is never called with an authorization
\* code that is empty or holds only whitespace.
C8_BlankCodeNeverExchanged ==
    Called(log, "exchangeAuthorization") =>
        ~Blank(log.calls[1].args.authorizationCode)

\* C9: executeStep on authorization_code with an empty or blank code fails
\* with an error, sets validationError to a message and leaves oauthStep at
\* authorization_code; with any other code it sets validationError to null
\* and oauthStep to token_request.
C9_AuthorizationCodeValidation ==
    [][ ( /\ NoStepInFlight
          /\ InvocationStep
          /\ state.oauthStep = "authorization_code" ) =>
          IF Blank(state.authorizationCode)
          THEN /\ log'.outcome = "failed"
               /\ log'.error.type = "Error"
               /\ state'.validationError.type = "string"
               /\ state'.validationError.str # <<>>
               /\ state'.oauthStep = "authorization_code"
          ELSE /\ log'.outcome = "ok"
               /\ state'.validationError = Null
               /\ state'.oauthStep = "token_request" ]_vars

C9_Witness ==
    /\ log.step = "authorization_code"
    /\ log.outcome = "failed"
    /\ log.preState.authorizationCode = Str(<<" ", " ">>)
    /\ Truthy(state.validationError)
    /\ state.oauthStep = "authorization_code"

\* The store holds everything token_request reads.
FullyPersisted(sto) ==
    /\ Truthy(sto[serverUrl].serverMetadata)
    /\ Truthy(sto[serverUrl].clientInformation)
    /\ Truthy(sto[serverUrl].codeVerifier)

\* C10: executeStep on token_request with a non-blank code and a store that
\* holds server metadata, client information and a code verifier calls the
\* token exchange; and when the exchange of a token_request answers with
\* tokens, these tokens are written to the store and the patch sets
\* oauthTokens to them and oauthStep to complete.
C10_TokenRequestCompletes ==
    [][ /\ ( /\ NoStepInFlight
             /\ InvocationStep
             /\ state.oauthStep = "token_request"
             /\ ~Blank(state.authorizationCode)
             /\ FullyPersisted(store) ) =>
               /\ log'.outcome = "running"
               /\ Called(log', "exchangeAuthorization")
               /\ inv'.pc = "exchangeAuthorization"
        /\ ( /\ inv.pc = "exchangeAuthorization"
             /\ InvocationStep
             /\ log'.answers[1].kind = "resolve" ) =>
               /\ log'.outcome = "ok"
               /\ store'[serverUrl].tokens = log'.answers[1].value
               /\ state'.oauthTokens = log'.answers[1].value
               /\ LastPatch(log').oauthTokens = log'.answers[1].value
               /\ state'.oauthStep = "complete" ]_vars

C10_Witness ==
    /\ log.step = "token_request"
    /\ log.outcome = "ok"
    /\ FullyPersisted(log.preStore)
    /\ ~Blank(log.preState.authorizationCode)
    /\ state.oauthStep = "complete"
    /\ state.oauthTokens \in OAuthTokens
    /\ store[serverUrl].tokens = state.oauthTokens

-----------------------------------------------------------------------------
(* C11 *)

\* A value that is a PKCE code verifier generated by startAuthorization.
IsCodeVerifier(x) ==
    /\ x.type = "string"
    /\ Len(x.str) = 2
    /\ x.str[1] = "verifier"

\* The fields of a Debugger State record or patch that hold a code verifier,
\* as the field's value or as a query parameter of the authorization URL.
VerifierFields(record) ==
    { f \in DOMAIN record \ {"oauthStep"} :
        \/ IsCodeVerifier(record[f])
        \/ /\ f = "authorizationUrl"
           /\ record[f].type = "string"
           /\ \E k \in DOMAIN record[f].str[2] :
                  IsCodeVerifier(record[f].str[2][k]) }

\* C11: in every reachable state no field of the Debugger State holds the
\* PKCE code verifier and no patch passed to updateState carries it; a
\* successful authorization_redirect has written the verifier that
\* startAuthorization generated to the store only.
C11_VerifierNeverOnDebuggerState ==
    /\ VerifierFields(state) = {}
    /\ \A i \in 1..Len(log.patches) : VerifierFields(log.patches[i]) = {}
    /\ ( log.step = "authorization_redirect" /\ log.outcome = "ok" ) =>
          /\ IsCodeVerifier(log.answers[1].value.codeVerifier)
          /\ log.writes = <<"saveCodeVerifier">>

C11_Witness ==
    /\ log.step = "authorization_redirect"
    /\ log.outcome = "ok"
    /\ state.oauthStep = "authorization_code"
    /\ state.authorizationUrl.type = "string"
    /\ IsCodeVerifier(store[serverUrl].codeVerifier)
    /\ store[serverUrl].codeVerifier = log.answers[1].value.codeVerifier

-----------------------------------------------------------------------------
(* C12, C13 *)

\* executeStep is called now, with no step in flight, on the given step.
ExecuteStepOn(step) ==
    /\ NoStepInFlight
    /\ InvocationStep
    /\ state.oauthStep = step

\* The invocation that starts in this step is rejected and its action does
\* not run: nothing is called, patched or written.
RejectedAtOnce ==
    /\ log'.outcome = "rejected"
    /\ log'.calls = <<>>
    /\ log'.patches = <<>>
    /\ log'.writes = <<>>
    /\ UNCHANGED <<state, store, inv>>

\* C12 as stated: with oauthMetadata absent from the Debugger State,
\* executeStep on client_registration, authorization_redirect or
\* token_request is rejected and the action does not run.
C12_MetadataOnStateRequired ==
    [][ \A step \in {"client_registration", "authorization_redirect",
                     "token_request"} :
          ( ExecuteStepOn(step) /\ ~Truthy(state.oauthMetadata) ) =>
              RejectedAtOnce ]_vars

\* C12 amended: with oauthMetadata absent from the Debugger State,
\* executeStep on client_registration or authorization_redirect is rejected
\* and the action does not run; executeStep on token_request is rejected,
\* and the action does not run, when the store holds no server metadata for
\* the target, whatever the Debugger State holds.
C12_MetadataRequired ==
    [][ /\ \A step \in {"client_registration", "authorization_redirect"} :
             ( ExecuteStepOn(step) /\ ~Truthy(state.oauthMetadata) ) =>
                 RejectedAtOnce
        /\ ( /\ ExecuteStepOn("token_request")
             /\ ~Truthy(getServerMetadata(store, serverUrl)) ) =>
               RejectedAtOnce ]_vars

\* token_request was rejected for want of persisted metadata although the
\* Debugger State held oauthMetadata, client information and a code.
C12_Witness ==
    /\ log.step = "token_request"
    /\ log.outcome = "rejected"
    /\ Truthy(log.preState.oauthMetadata)
    /\ Truthy(log.preState.authorizationCode)
    /\ ~Truthy(getServerMetadata(log.preStore, serverUrl))
    /\ Truthy(clientInformation(log.preStore, serverUrl))

\* C13 as stated: with oauthClientInfo absent from the Debugger State,
\* executeStep on authorization_redirect or token_request is rejected and
\* the action does not run.
C13_ClientInfoOnStateRequired ==
    [][ \A step \in {"authorization_redirect", "token_request"} :
          ( ExecuteStepOn(step) /\ ~Truthy(state.oauthClientInfo) ) =>
              RejectedAtOnce ]_vars

\* C13 amended: with oauthClientInfo absent from the Debugger State,
\* executeStep on authorization_redirect is rejected and the action does not
\* run; executeStep on token_request is rejected, and the action does not
\* run, when the store holds no client information for the target, whatever
\* the Debugger State holds.
C13_ClientInfoRequired ==
    [][ /\ ( /\ ExecuteStepOn("authorization_redirect")
             /\ ~Truthy(state.oauthClientInfo) ) =>
               RejectedAtOnce
        /\ ( /\ ExecuteStepOn("token_request")
             /\ ~Truthy(clientInformation(store, serverUrl)) ) =>
               RejectedAtOnce ]_vars

C13_Witness ==
    /\ log.step = "authorization_redirect"
    /\ log.outcome = "rejected"
    /\ Truthy(log.preState.oauthMetadata)
    /\ ~Truthy(log.preState.oauthClientInfo)
    /\ Truthy(clientInformation(log.preStore, serverUrl))

-----------------------------------------------------------------------------
(* C14 *)

\* C14: executeStep on token_request with a code and with server metadata
\* and client information persisted runs the exchange, whatever oauthMetadata
\* and oauthClientInfo the Debugger State holds (absent, or different from
\* the persisted ones), and the exchange receives the persisted metadata,
\* client information and code verifier.
C14_ExchangeReadsTheStore ==
    [][ ( /\ ExecuteStepOn("token_request")
          /\ Truthy(state.authorizationCode)
          /\ Truthy(getServerMetadata(store, serverUrl))
          /\ Truthy(clientInformation(store, serverUrl)) ) =>
            /\ log'.outcome = "running"
            /\ inv'.pc = "exchangeAuthorization"
            /\ Len(log'.calls) = 1
            /\ log'.calls[1].fn = "exchangeAuthorization"
            /\ log'.calls[1].args.metadata = store[serverUrl].serverMetadata
            /\ log'.calls[1].args.clientInformation =
                   store[serverUrl].clientInformation
            /\ log'.calls[1].args.codeVerifier = store[serverUrl].codeVerifier
      ]_vars

\* The exchange was called with oauthMetadata absent from the Debugger State
\* and oauthClientInfo different from the persisted client information.
C14_Witness ==
    /\ log.step = "token_request"
    /\ Called(log, "exchangeAuthorization")
    /\ log.preState.oauthMetadata = Null
    /\ log.preState.oauthClientInfo \in ClientInfos
    /\ log.preState.oauthClientInfo # log.preStore[serverUrl].clientInformation
    /\ log.calls[1].args.metadata \in DriverMetadata
    /\ log.calls[1].args.clientInformation =
           log.preStore[serverUrl].clientInformation
    /\ IsCodeVerifier(log.calls[1].args.codeVerifier)

-----------------------------------------------------------------------------
(* C15 *)

\* C15: in every state reached from the initial state through the machine's
\* steps in which the step is authorization_code, the store already holds
\* server metadata, client information and the code verifier.
C15_PersistedBeforeAuthorizationCode ==
    state.oauthStep = "authorization_code" =>
        /\ Truthy(getServerMetadata(store, serverUrl))
        /\ Truthy(clientInformation(store, serverUrl))
        /\ Truthy(codeVerifier(store, serverUrl))

C15_Witness ==
    /\ state.oauthStep = "authorization_code"
    /\ log.step = "authorization_redirect"
    /\ log.outcome = "ok"
    /\ store[serverUrl].serverMetadata = state.oauthMetadata
    /\ store[serverUrl].clientInformation = state.oauthClientInfo
    /\ IsCodeVerifier(store[serverUrl].codeVerifier)

-----------------------------------------------------------------------------
(* C16 *)

\* string is the elements of array in order with exactly one space between
\* each two neighbours and nothing else.
JoinedBySingleSpaces(string, array) ==
    LET n == Len(array.items) IN
    /\ string.type = "string"
    /\ Len(string.str) = IF n = 0 THEN 0 ELSE 2 * n - 1
    /\ \A i \in 1..n : string.str[2 * i - 1] = array.items[i]
    /\ \A i \in 1..(n - 1) : string.str[2 * i] = " "

\* The document is there and has a scopes_supported list.
ListsScopes(doc) == Truthy(doc) /\ doc.scopes_supported.type = "array"

\* C16: the client metadata that client_registration sends to registerClient
\* has as scope the resource metadata's scopes_supported joined by single
\* spaces when the resource metadata has scopes_supported, otherwise the
\* authorization-server metadata's scopes_supported joined the same way;
\* when neither lists scopes the client metadata is sent as it was.
C16_RegistrationScope ==
    ( log.step = "client_registration" /\ Called(log, "registerClient") ) =>
        LET sent == log.calls[1].args.clientMetadata
            resource == log.preState.resourceMetadata
            metadata == log.preState.oauthMetadata
        IN /\ log.calls[1].args.metadata = metadata
           /\ IF ListsScopes(resource)
              THEN JoinedBySingleSpaces(sent.scope, resource.scopes_supported)
              ELSE IF ListsScopes(metadata)
                   THEN JoinedBySingleSpaces(sent.scope,
                                             metadata.scopes_supported)
                   ELSE sent = clientMetadata

\* Both documents list scopes, different ones, and the resource's were sent.
C16_Witness ==
    /\ log.step = "client_registration"
    /\ Called(log, "registerClient")
    /\ ListsScopes(log.preState.resourceMetadata)
    /\ ListsScopes(log.preState.oauthMetadata)
    /\ Len(log.preState.resourceMetadata.scopes_supported.items) = 2
    /\ log.preState.oauthMetadata.scopes_supported.items
          # log.preState.resourceMetadata.scopes_supported.items
    /\ log.preState.oauthMetadata.scopes_supported.items # <<>>
    /\ log.calls[1].args.clientMetadata.scope.str = <<"read", " ", "write">>

-----------------------------------------------------------------------------
(* C17 *)

\* The scope parameter of the authorization URL that the patch of a
\* successful authorization_redirect holds.
ScopeParameter(l) == LastPatch(l).authorizationUrl.str[2].scope

\* C17 as stated: authorization_redirect passes to startAuthorization the
\* metadata's supported scopes joined by single spaces, and passes no scope
\* when the metadata lists no supported scopes, also when the list is
\* present but empty.
C17_ScopeOmittedWithoutScopes ==
    ( log.step = "authorization_redirect" /\ Called(log, "startAuthorization") )
      => LET passed == log.calls[1].args.scope
             metadata == log.preState.oauthMetadata
         IN IF ListsScopes(metadata) /\ metadata.scopes_supported.items # <<>>
            THEN JoinedBySingleSpaces(passed, metadata.scopes_supported)
            ELSE passed = Undefined

\* C17 amended: authorization_redirect passes to startAuthorization the
\* metadata's supported scopes joined by single spaces whenever the list is
\* present, which for a present but empty list is the empty string, and
\* passes no scope when the list is absent; the authorization URL has a
\* scope parameter exactly when the list is present and not empty.
C17_AuthorizationScope ==
    ( log.step = "authorization_redirect" /\ Called(log, "startAuthorization") )
      => LET passed == log.calls[1].args.scope
             metadata == log.preState.oauthMetadata
         IN /\ IF ListsScopes(metadata)
               THEN JoinedBySingleSpaces(passed, metadata.scopes_supported)
               ELSE passed = Undefined
            /\ log.outcome = "ok" =>
                  ScopeParameter(log) =
                      IF ListsScopes(metadata)
                           /\ metadata.scopes_supported.items # <<>>
                      THEN passed
                      ELSE Undefined

\* The list was present but empty: the empty string was passed and the URL
\* has no scope parameter.
C17_Witness ==
    /\ log.step = "authorization_redirect"
    /\ log.outcome = "ok"
    /\ log.preState.oauthMetadata.scopes_supported = Arr(<<>>)
    /\ log.calls[1].args.scope = Str(<<>>)
    /\ ScopeParameter(log) = Undefined

-----------------------------------------------------------------------------
(* C18 *)

\* C18: when discoverOAuthMetadata returns nothing or a document that fails
\* schema validation, the metadata_discovery invocation fails, no server
\* metadata is written to the store and no patch is applied: the step,
\* resourceMetadata, resourceMetadataError, authServerUrl and oauthMetadata
\* keep their previous values.
C18_NoMetadataIsFatal ==
    [][ ( /\ inv.pc = "discoverOAuthMetadata"
          /\ InvocationStep
          /\ log'.answers[2].kind = "resolve"
          /\ ~MetadataDiscovered(log'.answers[2]) ) =>
            /\ log'.outcome = "failed"
            /\ ~Truthy(log'.answers[2].value) =>
                  log'.error = Err(<<"Failed to discover OAuth metadata">>)
            /\ log'.patches = <<>>
            /\ log'.writes = <<>>
            /\ inv' = IdleInvocation
            /\ store' = store
            /\ state' = state ]_vars

\* Resource metadata was discovered, the authorization server's document
\* failed validation, and neither reached the state or the store.
C18_Witness ==
    /\ log.step = "metadata_discovery"
    /\ log.outcome = "failed"
    /\ Len(log.answers) = 2
    /\ log.answers[1].kind = "resolve"
    /\ Truthy(log.answers[1].value)
    /\ log.answers[2].kind = "resolve"
    /\ Truthy(log.answers[2].value)
    /\ log.answers[2].value.token_endpoint = Undefined
    /\ state = EMPTY_DEBUGGER_STATE
    /\ store = InitialStore

-----------------------------------------------------------------------------
(* C19 *)

\* An executeStep invocation begins in this step.
InvocationBegins == InvocationStep /\ log'.answers = <<>>

-----------------------------------------------------------------------------
(* C20 *)

\* The Protocol Client calls that belong to the action of each step.
CallsOf(step) ==
    CASE step = "metadata_discovery" ->
            {"discoverOAuthProtectedResourceMetadata", "discoverOAuthMetadata"}
      [] step = "client_registration" -> {"registerClient"}
      [] step = "authorization_redirect" -> {"startAuthorization"}
      [] step = "token_request" -> {"exchangeAuthorization"}
      [] OTHER -> {}

\* C20: steps are never chained. An executeStep invocation looks up the one
\* step the Debugger State names when it begins and runs at most that step's
\* action: every call and every patch of the invocation is that step's, at
\* most one patch moves the step, and it moves it to the position right
\* after the invoked one. Nothing but an invocation moves the step forward,
\* so complete, five positions after the initial step, takes five
\* invocations.
C20_StepsNeverChained ==
    [][ /\ InvocationBegins => log'.step = state.oauthStep
        /\ InvocationStep =>
              /\ log'.preState.oauthStep = log'.step
              /\ \A i \in 1..Len(log'.calls) :
                    log'.calls[i].fn \in CallsOf(log'.step)
              /\ \A i \in 1..Len(log'.patches) :
                    "oauthStep" \in DOMAIN log'.patches[i] =>
                        /\ StepIndex(log'.patches[i].oauthStep)
                              = StepIndex(log'.step) + 1
                        /\ i = Len(log'.patches)
                        /\ log'.outcome = "ok"
              /\ \/ state'.oauthStep = state.oauthStep
                 \/ StepIndex(state'.oauthStep) = StepIndex(log'.step) + 1
              /\ StepIndex(state'.oauthStep)
                    <= StepIndex(log'.preState.oauthStep) + 1
        /\ ~InvocationStep =>
              StepIndex(state'.oauthStep) <= StepIndex(state.oauthStep) ]_vars

\* complete was reached: the last invocation was the one of token_request,
\* begun at token_request, and it moved the step by one position.
C20_Witness ==
    /\ state.oauthStep = "complete"
    /\ log.step = "token_request"
    /\ log.preState.oauthStep = "token_request"
    /\ log.outcome = "ok"
    /\ Len(log.calls) = 1
    /\ Len(log.patches) = 1

-----------------------------------------------------------------------------
(* C21 *)

\* C21: within one executeStep invocation every Protocol Client operation is
\* called at most once, each call is answered at most once, and when the
\* invocation ends because a call threw, the error that reaches the caller is
\* the thrown value itself.
C21_NoRetries ==
    /\ \A i, j \in 1..Len(log.calls) :
          log.calls[i].fn = log.calls[j].fn => i = j
    /\ Len(log.answers) <= Len(log.calls)
    /\ ( /\ log.outcome = "failed"
         /\ log.answers # <<>>
         /\ log.answers[Len(log.answers)].kind = "throw" ) =>
           /\ log.error = log.answers[Len(log.answers)].value
           /\ Len(log.answers) = Len(log.calls)
           /\ log.patches = <<>>

\* Authorization-server metadata discovery threw after resource metadata
\* discovery had been answered: two calls, one each, and the error as thrown.
C21_Witness ==
    /\ log.step = "metadata_discovery"
    /\ log.outcome = "failed"
    /\ Len(log.calls) = 2
    /\ Len(log.answers) = 2
    /\ log.answers[2] = Throw(NetworkError)
    /\ log.error = NetworkError

-----------------------------------------------------------------------------
(* C22 *)

\* The operator types into the code field in this step.
TypesCode ==
    /\ state'.authorizationCode # state.authorizationCode
    /\ state'.oauthStep = state.oauthStep
    /\ store' = store

OptionalFields ==
    { "oauthMetadata", "oauthClientInfo", "oauthTokens", "authorizationUrl",
      "authServerUrl", "resourceMetadata", "resourceMetadataError",
      "validationError", "latestError" }

\* C22: a step of the operator that is not typing the code is the clear
\* action, and after it, from whatever step and store content it was taken,
\* the store holds no server metadata, client information, code verifier or
\* tokens for the target, the step is metadata_discovery, and every optional
\* field of the Debugger State is unset.
C22_ClearResetsEverything ==
    [][ ( ~InvocationStep /\ ~TypesCode ) =>
          /\ store'[serverUrl].serverMetadata = Null
          /\ store'[serverUrl].clientInformation = Null
          /\ store'[serverUrl].codeVerifier = Null
          /\ store'[serverUrl].tokens = Null
          /\ state'.oauthStep = "metadata_discovery"
          /\ \A f \in OptionalFields : state'[f] = Null
          /\ state'.authorizationCode = Str(<<>>)
          /\ DOMAIN state' = DOMAIN EMPTY_DEBUGGER_STATE ]_vars

\* The state was cleared after the flow had reached complete.
C22_Witness ==
    /\ log.step = "token_request"
    /\ log.outcome = "ok"
    /\ state.oauthStep = "metadata_discovery"
    /\ state.oauthTokens = Null
    /\ state.statusMessage # Null
    /\ store[serverUrl] = EmptyStoreEntry

-----------------------------------------------------------------------------
(* C23 *)

\* The browser is navigated away in this step.
NavigatesAway == inv.pc # "away" /\ inv'.pc = "away"

\* The page is loaded again in this step.
ComesBack == inv.pc = "away" /\ inv'.pc # "away"

\* C23: when the browser is navigated to the authorization URL the Debugger
\* State has been serialized into sessionStorage with oauthStep =
\* authorization_code and with the authorizationUrl, oauthMetadata and
\* oauthClientInfo accumulated so far, and the state rehydrated after the
\* redirect is at authorization_code with these same fields present.
C23_SerializedBeforeRedirect ==
    [][ /\ NavigatesAway =>
              LET stored == Deserialize(store'[debuggerStateKey]) IN
              /\ stored.oauthStep = "authorization_code"
              /\ Truthy(state.authorizationUrl)
              /\ Truthy(state.oauthMetadata)
              /\ Truthy(state.oauthClientInfo)
              /\ stored.authorizationUrl = state.authorizationUrl
              /\ stored.oauthMetadata = state.oauthMetadata
              /\ stored.oauthClientInfo = state.oauthClientInfo
        /\ ComesBack =>
              /\ state'.oauthStep = "authorization_code"
              /\ state'.authorizationUrl = LastPatch(log).authorizationUrl
              /\ state'.oauthMetadata = log.preState.oauthMetadata
              /\ state'.oauthClientInfo = log.preState.oauthClientInfo
              /\ Truthy(state'.authorizationUrl)
              /\ Truthy(state'.oauthMetadata)
              /\ Truthy(state'.oauthClientInfo) ]_vars

\* The state in memory is the rehydrated one.
C23_Witness ==
    /\ inv.pc = "idle"
    /\ store[debuggerStateKey] # Null
    /\ state = Deserialize(store[debuggerStateKey])
    /\ state.oauthStep = "authorization_code"
    /\ state.authorizationUrl.type = "string"
    /\ state.oauthMetadata = store[serverUrl].serverMetadata
    /\ state.oauthClientInfo = store[serverUrl].clientInformation

-----------------------------------------------------------------------------
(* C24 *)

\* C24 as stated: every Debugger State the machine produces round-trips
\* through string storage: deserializing its serialization gives a state
\* equal to it in every field.
C24_StateRoundTrips ==
    Deserialize(Serialize(state)) = state

-----------------------------------------------------------------------------
(* C25 *)

\* The serialized Debugger State in sessionStorage is the one of the flow on
\* the given target.
FlowStateOf(target, sto) ==
    /\ sto[debuggerStateKey] # Null
    /\ Deserialize(sto[debuggerStateKey]).authServerUrl = Str(<<Href(target)>>)

\* C25 as stated: no step of the flow on the target changes what is
\* persisted for the other target: its server metadata, client information,
\* code verifier and tokens, and its persisted flow state.
C25_OtherTargetUntouched ==
    [][ /\ store'[otherServerUrl] = store[otherServerUrl]
        /\ FlowStateOf(otherServerUrl, store) =>
              store'[debuggerStateKey] = store[debuggerStateKey] ]_vars

-----------------------------------------------------------------------------
(* C26 *)

\* Authorization-server metadata discovery was called in metadata_discovery.
DiscoveryCalled ==
    /\ log.step = "metadata_discovery"
    /\ Len(log.calls) = 2

\* Resource metadata discovery answered with a document that lists
\* authorization servers.
ServersSupplied ==
    /\ log.answers[1].kind = "resolve"
    /\ HasAuthorizationServers(log.answers[1].value)

\* C26 as stated: authorization-server metadata is discovered at the first
\* authorization_servers entry when resource metadata supplied one, and at
\* the target's own URL when resource-metadata discovery failed or listed no
\* authorization servers; authServerUrl in the patch is the URL the
\* discovery was made at.
C26_DiscoveredAtFirstEntry ==
    DiscoveryCalled =>
        /\ log.calls[2].fn = "discoverOAuthMetadata"
        /\ log.calls[2].args =
              IF ServersSupplied
              THEN URLObject(Href(FirstAuthorizationServer(log.answers[1].value)))
              ELSE URLObject(Href(serverUrl))
        /\ log.outcome = "ok" =>
              LastPatch(log).authServerUrl = log.calls[2].args

\* C26 amended: authorization-server metadata is discovered at the first
\* authorization_servers entry when resource metadata supplied one that
\* parses as a URL, and at the target's own URL when resource-metadata
\* discovery failed, listed no authorization servers, or listed a first
\* entry that is no URL; authServerUrl in the patch is the URL the discovery
\* was made at.
C26_DiscoveredAtResolvedUrl ==
    DiscoveryCalled =>
        /\ log.calls[1] = Call("discoverOAuthProtectedResourceMetadata",
                               serverUrl)
        /\ log.calls[2].fn = "discoverOAuthMetadata"
        /\ log.calls[2].args =
              IF ServersSupplied
                   /\ CanParseURL(FirstAuthorizationServer(log.answers[1].value))
              THEN URLObject(Href(FirstAuthorizationServer(log.answers[1].value)))
              ELSE URLObject(Href(serverUrl))
        /\ log.outcome = "ok" =>
              LastPatch(log).authServerUrl = log.calls[2].args

\* The discovery was made at the first listed authorization server, not at
\* the target, and the state holds that URL.
C26_Witness ==
    /\ DiscoveryCalled
    /\ log.outcome = "ok"
    /\ ServersSupplied
    /\ log.calls[2].args = URLObject("https://auth.example/")
    /\ state.authServerUrl = URLObject("https://auth.example/")
    /\ state.oauthStep = "client_registration"

-----------------------------------------------------------------------------
(* C27 *)

\* C27: when the network call of client_registration, authorization_redirect
\* or token_request throws, the invocation fails having written nothing to
\* the store and applied no patch: the step that ends it leaves the store
\* and every field of the Debugger State as they were, as did the step that
\* began it.
C27_FailedNetworkActionChangesNothing ==
    [][ /\ ( /\ inv.pc \in {"registerClient", "startAuthorization",
                            "exchangeAuthorization"}
             /\ InvocationStep
             /\ log'.answers[Len(log'.answers)].kind = "throw" ) =>
               /\ log'.outcome = "failed"
               /\ log'.patches = <<>>
               /\ log'.writes = <<>>
               /\ state' = state
               /\ store' = store
               /\ inv' = IdleInvocation
        /\ ( /\ InvocationBegins
             /\ log'.step \in {"client_registration", "authorization_redirect",
                                "token_request"} ) =>
               /\ state' = state
               /\ store' = store ]_vars

\* The token exchange failed and the state and the store are the ones the
\* invocation started from, ready for the same step again.
C27_Witness ==
    /\ log.step = "token_request"
    /\ log.outcome = "failed"
    /\ log.answers = <<Throw(NetworkError)>>
    /\ state = log.preState
    /\ store = log.preStore
    /\ state.oauthStep = "token_request"
    /\ IsCodeVerifier(store[serverUrl].codeVerifier)
    /\ store[serverUrl].tokens = Null

-----------------------------------------------------------------------------
(* C28 *)

\* The fields that the patch of each step is documented to write.
DocumentedFields(step) ==
    CASE step = "metadata_discovery" ->
            {"resourceMetadata", "resourceMetadataError", "authServerUrl",
             "oauthMetadata", "oauthStep"}
      [] step = "client_registration" -> {"oauthClientInfo", "oauthStep"}
      [] step = "authorization_redirect" -> {"authorizationUrl", "oauthStep"}
      [] step = "authorization_code" -> {"validationError", "oauthStep"}
      [] step = "token_request" -> {"oauthTokens", "oauthStep"}
      [] OTHER -> {}

\* C28: the patch of every successful step names exactly the documented
\* fields of that step, and a step of an invocation leaves every field of
\* the Debugger State outside the documented fields of its step unchanged;
\* no step changes authorizationCode.
C28_PatchTouchesOnlyItsFields ==
    [][ InvocationStep =>
          /\ ( log'.outcome = "ok" /\ log'.step # "complete" ) =>
                /\ Len(log'.patches) = 1
                /\ DOMAIN log'.patches[1] = DocumentedFields(log'.step)
          /\ DOMAIN state' = DOMAIN state
          /\ \A f \in DOMAIN state \ DocumentedFields(log'.step) :
                state'[f] = state[f]
          /\ state'.authorizationCode = state.authorizationCode ]_vars

\* A token exchange succeeded on a state with every field set by an earlier
\* step, and these fields are still what they were.
C28_Witness ==
    /\ log.step = "token_request"
    /\ log.outcome = "ok"
    /\ state.oauthStep = "complete"
    /\ state.authorizationCode = log.preState.authorizationCode
    /\ state.authorizationCode # Str(<<>>)
    /\ state.oauthMetadata = log.preState.oauthMetadata
    /\ Truthy(state.oauthMetadata)
    /\ Truthy(state.oauthClientInfo)
    /\ Truthy(state.authorizationUrl)
    /\ Truthy(state.authServerUrl)

-----------------------------------------------------------------------------
(* C29 *)

\* The Debugger State without its operator-facing feedback.
WithoutFeedback(st) ==
    [st EXCEPT !.statusMessage = Null, !.latestError = Null]

\* The network call that the action of the step of st makes first, worked
\* out from st and the store.
FirstCall(st, sto) ==
    CASE st.oauthStep = "metadata_discovery" ->
            Call("discoverOAuthProtectedResourceMetadata", serverUrl)
      [] st.oauthStep = "client_registration" ->
            Call("registerClient",
                 [ serverUrl |-> serverUrl,
                   metadata |-> st.oauthMetadata,
                   clientMetadata |-> RegistrationClientMetadata(st) ])
      [] st.oauthStep = "authorization_redirect" ->
            Call("startAuthorization",
                 [ serverUrl |-> serverUrl,
                   metadata |-> st.oauthMetadata,
                   clientInformation |-> st.oauthClientInfo,
                   redirectUrl |-> redirectUrl,
                   scope |-> AuthorizationScope(st.oauthMetadata) ])
      [] st.oauthStep = "token_request" ->
            Call("exchangeAuthorization",
                 [ serverUrl |-> serverUrl,
                   metadata |-> sto[serverUrl].serverMetadata,
                   clientInformation |-> sto[serverUrl].clientInformation,
                   authorizationCode |-> st.authorizationCode,
                   codeVerifier |-> sto[serverUrl].codeVerifier,
                   redirectUri |-> redirectUrl ])

\* C29: what an executeStep invocation decides and does is a function of the
\* Debugger State without statusMessage and latestError, of the store and of
\* the Protocol Client's answers: the precondition, the call made, the
\* patches and the store writes are the ones worked out from the state with
\* both fields blanked, and no patch names either field.
C29_FeedbackNotUsedForControl ==
    [][ InvocationStep =>
          /\ InvocationBegins =>
                LET st == WithoutFeedback(state)
                    context == [state |-> st, serverUrl |-> serverUrl]
                    allowed == canTransition(st.oauthStep, context, store)
                IN /\ log'.outcome = "rejected" <=> ~allowed
                   /\ log'.outcome = "running" =>
                         log'.calls = <<FirstCall(st, store)>>
                   /\ ( allowed /\ st.oauthStep = "authorization_code" ) =>
                         log'.patches =
                             <<IF CodeMissing(st)
                               THEN AuthorizationCodeErrorPatch
                               ELSE AuthorizationCodePatch>>
                   /\ log'.writes = <<>>
                   /\ store' = store
          /\ \A i \in 1..Len(log'.patches) :
                DOMAIN log'.patches[i] \cap {"statusMessage", "latestError"}
                    = {}
          /\ state'.statusMessage = state.statusMessage
          /\ state'.latestError = state.latestError
          /\ WithoutFeedback(state') =
                IF Len(log'.patches)
                     > (IF InvocationBegins THEN 0 ELSE Len(log.patches))
                THEN UpdateState(WithoutFeedback(state), LastPatch(log'))
                ELSE WithoutFeedback(state) ]_vars

\* A registration was begun, and then completed, on a state that showed the
\* notice and the error of an earlier attempt.
C29_Witness ==
    /\ log.step = "client_registration"
    /\ log.outcome = "ok"
    /\ log.preState.latestError = NetworkError
    /\ log.preState.statusMessage # Null
    /\ state.latestError = NetworkError
    /\ state.oauthStep = "authorization_redirect"

-----------------------------------------------------------------------------
\* C30: in every state reached from the initial state by executeStep
\* invocations alone, the fields the position requires are present: at or
\* after client_registration oauthMetadata is present, and at or after
\* authorization_redirect oauthClientInfo is present.
C30_RequiredFieldsPresent ==
    /\ StepIndex(state.oauthStep) >= StepIndex("client_registration")
          => Truthy(state.oauthMetadata)
    /\ StepIndex(state.oauthStep) >= StepIndex("authorization_redirect")
          => Truthy(state.oauthClientInfo)

C30_Witness ==
    /\ state.oauthStep = "complete"
    /\ log.step = "token_request"
    /\ log.outcome = "ok"
    /\ Truthy(state.oauthMetadata)
    /\ Truthy(state.oauthClientInfo)

-----------------------------------------------------------------------------
\* C31 as claimed: after a successful metadata_discovery, resourceMetadata
\* and resourceMetadataError are never both set, whatever the first
\* authorization_servers entry is.
C31_NeverBothSet ==
    ( log.step = "metadata_discovery" /\ log.outcome = "ok" ) =>
        ~ ( /\ Truthy(LastPatch(log).resourceMetadata)
            /\ Truthy(LastPatch(log).resourceMetadataError) )

\* C31 as amended: after a successful metadata_discovery, when the discovery
\* of resource metadata threw, resourceMetadata is null and the error is set;
\* when it resolved, resourceMetadata is the document, and the error is set
\* exactly when the document's first authorization_servers entry is no URL:
\* in that one case both are set.
C31_BothSetOnlyForUnparsableServer ==
    ( log.step = "metadata_discovery" /\ log.outcome = "ok" ) =>
        LET patch == LastPatch(log)
            answer == log.answers[1]
        IN IF answer.kind = "throw"
           THEN /\ patch.resourceMetadata = Null
                /\ Truthy(patch.resourceMetadataError)
           ELSE /\ patch.resourceMetadata = answer.value
                /\ Truthy(patch.resourceMetadataError)
                     <=> ( /\ HasAuthorizationServers(answer.value)
                           /\ ~CanParseURL(FirstAuthorizationServer(answer.value)) )

\* A discovery that succeeded on a document whose first authorization server
\* is no URL: the state shows the document and the error together.
C31_Witness ==
    /\ log.step = "metadata_discovery"
    /\ log.outcome = "ok"
    /\ state.oauthStep = "client_registration"
    /\ Truthy(state.resourceMetadata)
    /\ state.resourceMetadata.authorization_servers = Arr(<<"not a url">>)
    /\ state.resourceMetadataError = Err(<<"Invalid URL">>)

-----------------------------------------------------------------------------
\* C32 as claimed: the scope passed to startAuthorization at
\* authorization_redirect equals the scope registered for the client by the
\* client_registration that succeeded just before it in the same flow,
\* whatever scopes_supported the resource metadata and the
\* authorization-server metadata hold.
C32_RequestedScopeIsRegisteredScope ==
    [][ ( /\ InvocationBegins
          /\ log.step = "client_registration"
          /\ log.outcome = "ok"
          /\ log'.step = "authorization_redirect"
          /\ log'.outcome = "running" ) =>
            log'.calls[1].args.scope = log.calls[1].args.clientMetadata.scope ]_vars

-----------------------------------------------------------------------------
(* C33 *)

\* The S256 challenge that startAuthorization derives from a verifier.
ChallengeOf(verifier) == Str(<<"S256", verifier.str[2]>>)

\* The authorization URL shown (its string form) carries the challenge of
\* the verifier; with no URL shown there is no verifier either.
Pairs(verifier, url) ==
    IF url = Null
    THEN verifier = Null
    ELSE /\ IsCodeVerifier(verifier)
         /\ url.str[2].code_challenge = ChallengeOf(verifier)

\* C33: after any sequence or interleaving of authorization_redirect
\* invocations for the target, the code verifier held in the store is the
\* one generated together with the authorizationUrl in the Debugger State,
\* and the verifier that token_request hands to the exchange is the one that
\* matches the challenge of the URL displayed when it was triggered.
C33_VerifierPairsWithUrl ==
    /\ Pairs(codeVerifier(store, serverUrl), state.authorizationUrl)
    /\ ( log.step = "token_request" /\ Called(log, "exchangeAuthorization") ) =>
          Pairs(log.calls[1].args.codeVerifier, log.preState.authorizationUrl)

\* Two authorization_redirect invocations overlapped, both were answered, and
\* the exchange was then made with the verifier of the second answer.
C33_Witness ==
    /\ issued = 2
    /\ log.step = "token_request"
    /\ Called(log, "exchangeAuthorization")
    /\ log.calls[1].args.codeVerifier = CodeVerifierOf(2)
    /\ log.preState.authorizationUrl.str[2].code_challenge = ChallengeOf(CodeVerifierOf(2))
    /\ log.preStore[serverUrl].codeVerifier = CodeVerifierOf(2)

-----------------------------------------------------------------------------
(* C34 *)

\* The store write that each network step makes before its patch.
ArtifactWrite(step) ==
    CASE step = "metadata_discovery" -> <<"saveServerMetadata">>
      [] step = "client_registration" -> <<"saveClientInformation">>
      [] step = "authorization_redirect" -> <<"saveCodeVerifier">>
      [] step = "token_request" -> <<"saveTokens">>
      [] OTHER -> <<>>

\* C34: in every state reached by executeStep invocations, an oauthMetadata
\* set on the Debugger State is the server metadata the store holds, an
\* oauthClientInfo set on it is the client information the store holds, and
\* oauthTokens set on it are the tokens the store holds; a step that applied
\* its patch has made its store write.
C34_StoreAndStateAgree ==
    /\ Truthy(state.oauthMetadata) =>
          getServerMetadata(store, serverUrl) = state.oauthMetadata
    /\ Truthy(state.oauthClientInfo) =>
          clientInformation(store, serverUrl) = state.oauthClientInfo
    /\ Truthy(state.oauthTokens) =>
          store[serverUrl].tokens = state.oauthTokens
    /\ log.outcome = "ok" => log.writes = ArtifactWrite(log.step)

C34_Witness ==
    /\ state.oauthStep = "complete"
    /\ log.step = "token_request"
    /\ log.outcome = "ok"
    /\ Truthy(state.oauthTokens)
    /\ store[serverUrl].tokens = state.oauthTokens
    /\ store[serverUrl].clientInformation = state.oauthClientInfo
    /\ store[serverUrl].serverMetadata = state.oauthMetadata

-----------------------------------------------------------------------------
\* C35: the machine sets oauthTokens only in a patch that also sets the step
\* to complete, and in every state reached from the initial state by
\* executeStep invocations alone oauthTokens is set if and only if the step
\* is complete.
C35_TokensIffComplete ==
    /\ Truthy(state.oauthTokens) <=> state.oauthStep = "complete"
    /\ \A i \in 1..Len(log.patches) :
          "oauthTokens" \in DOMAIN log.patches[i] =>
              /\ "oauthStep" \in DOMAIN log.patches[i]
              /\ log.patches[i].oauthStep = "complete"
              /\ Truthy(log.patches[i].oauthTokens)

C35_Witness ==
    /\ state.oauthStep = "complete"
    /\ state.oauthTokens \in OAuthTokens
    /\ log.step = "token_request"
    /\ ~Truthy(log.preState.oauthTokens)
    /\ LastPatch(log).oauthTokens = state.oauthTokens

-----------------------------------------------------------------------------
\* C36: the token exchange is never called without a persisted code
\* verifier: in every state, reached from the initial state through the
\* machine's steps and clear, in which token_request's action has run, the
\* store of the target held a code verifier when the action began, one that
\* an authorization_redirect generated and saved, and the exchange was called
\* with it.
C36_ExchangeHasPersistedVerifier ==
    Called(log, "exchangeAuthorization") =>
        LET verifier == log.preStore[serverUrl].codeVerifier IN
        /\ log.step = "token_request"
        /\ IsCodeVerifier(verifier)
        /\ verifier.str[2] \in 1..issued
        /\ log.calls[1].args.codeVerifier = verifier

\* The exchange of a flow that was begun again after a clear: it is made
\* with the verifier of the second authorization_redirect.
C36_Witness ==
    /\ log.step = "token_request"
    /\ log.outcome = "running"
    /\ Called(log, "exchangeAuthorization")
    /\ issued = 2
    /\ log.calls[1].args.codeVerifier = CodeVerifierOf(2)
    /\ codeVerifier(store, serverUrl) = CodeVerifierOf(2)

-----------------------------------------------------------------------------
(* C37 *)

\* The target's authorization state is as the clear operation leaves it.
Cleared ==
    /\ store[serverUrl] = EmptyStoreEntry
    /\ state = UpdateState(state, ClearPatch)

\* C37 as claimed: a step action that was triggered before the operator
\* cleared the authorization state, and is answered after, does not undo the
\* clear: the store entries of the target stay removed and the Debugger State
\* stays as the clear left it.
C37_ClearIsNotUndone ==
    [][ ( /\ InvocationStep
          /\ ~InvocationBegins
          /\ Cleared
          /\ log.preState # state ) =>
            /\ store'[serverUrl] = EmptyStoreEntry
            /\ state' = state ]_vars

-----------------------------------------------------------------------------
(* C38 *)

\* The operator triggers the current step, and where the step reads the
\* authorization code, does so with a non-blank code supplied.
TriggersStep ==
    /\ executeStep
    /\ state.oauthStep \in {"authorization_code", "token_request"}
          => ~Blank(state.authorizationCode)

\* The operator supplies a non-blank authorization code.
SuppliesCode ==
    /\ SetAuthorizationCode
    /\ ~Blank(state'.authorizationCode)

\* The operator does not leave a blank code as it is.
EditsBlankCode ==
    /\ SetAuthorizationCode
    /\ Blank(state.authorizationCode)

\* The Protocol Client operation that the step in flight awaits succeeds.
\* (The discovery of resource metadata may fail: the step goes on either
\* way.)
OperationSucceeds ==
    /\ \/ OAuthMetadataAnswer
       \/ RegisterClientAnswer
       \/ StartAuthorizationAnswer
       \/ ExchangeAuthorizationAnswer
    /\ log'.outcome = "ok"

\* The machine's steps under the conditions of progress: the operator keeps
\* triggering the current step and supplies a non-blank code, the discovery
\* of resource metadata is answered in some way, and every other Protocol
\* Client operation succeeds in the end, however often it failed before.
Progress ==
    /\ SF_vars(TriggersStep)
    /\ WF_vars(EditsBlankCode)
    /\ SF_vars(SuppliesCode)
    /\ WF_vars(ProtectedResourceMetadataAnswer)
    /\ SF_vars(OperationSucceeds)

SpecProgress == Init /\ [][NextSteps]_vars /\ Progress

\* C38: from the initial state, when every Protocol Client operation
\* succeeds in the end, the operator supplies a non-blank authorization code
\* and keeps triggering the current step, the flow reaches step complete
\* with oauthTokens set; complete is never left, so no state short of it is a
\* dead end.
C38_Progress ==
    <>[]( state.oauthStep = "complete" /\ Truthy(state.oauthTokens) )

\* The flow is complete, the exchange having been made with the non-blank
\* code the operator supplied.
C38_Witness ==
    /\ state.oauthStep = "complete"
    /\ Truthy(state.oauthTokens)
    /\ log.step = "token_request"
    /\ log.outcome = "ok"
    /\ ~Blank(log.calls[1].args.authorizationCode)

=============================================================================
